---- MODULE Spec2Model ----
(***************************************************************************)
(* Paper-trading ledger of src/main.py (a Streamlit script).              *)
(*                                                                         *)
(* Every user interaction re-runs main() from top to bottom for one       *)
(* browser session.  One action of this model is one complete run of      *)
(* main() with at most one button reported as clicked.                    *)
(*                                                                         *)
(* Money is counted in whole paise, so the ".2f" formatting of an amount  *)
(* loses nothing; Python floats are not modelled.  None is the empty      *)
(* tuple and a float value p is the one-element tuple <<p>>, so that an   *)
(* arithmetic use of None is an evaluation error instead of a number.     *)
(***************************************************************************)
EXTENDS Integers, Sequences, FiniteSets, TLC

\* ----------------------------------------------------------------- bounds
MaxLots == 2

MaxQty == 2

Symbols == {"X", "Y"}

Sessions == {"s1", "s2"}

\* What the user may type in the symbol box (line 89), before .upper().
TextInputs == {"", "x", "Y"}

\* Wall-clock readings of datetime.now() (line 116).
Nows ==
    { [year |-> 2024, month |-> 1, day |-> 5, hour |-> 9],
      [year |-> 2024, month |-> 1, day |-> 5, hour |-> 15] }

\* Closing prices the oracle may report, in paise.
Prices == {100, 120}

Quantities == 1..MaxQty

\* ------------------------------------------------------------ Python values
None == << >>

Float(p) == << p >>

Val(x) == x[1]

\* A DataFrame of closing prices, oldest first; period='1d' has at most one row.
Frames == { << >> } \cup { << p >> : p \in Prices }

VARIABLES session_state, file, out, save_faulted

vars == << session_state, file, out, save_faulted >>

\* ------------------------------------------------------------ pure helpers
\* str.upper() on the inputs of TextInputs (line 89).
upper(t) ==
    CASE t = "x" -> "X"
      [] t = "y" -> "Y"
      [] OTHER -> t

Pad2(n) == IF n < 10 THEN "0" \o ToString(n) ELSE ToString(n)

\* datetime.strftime("%Y-%m-%d") (line 116): the time of day is dropped.
strftime(now) ==
    ToString(now.year) \o "-" \o Pad2(now.month) \o "-" \o Pad2(now.day)

\* The dict appended at lines 112-117.
Lot(s, q, p, d) == [Stock |-> s, Quantity |-> q, BuyPrice |-> p, BuyDate |-> d]

\* get_latest_price, had it answered an empty frame with a price of zero.
get_latest_price_zero(data) ==
    IF data # << >> THEN Float(data[Len(data)]) ELSE Float(0)

\* get_latest_price (lines 22-26): last close of the fetched frame, or None.
get_latest_price(data) ==
    IF data # << >> THEN Float(data[Len(data)]) ELSE None

\* ------------------------------------------------------------- persistence
\* JSON values: null, a number, a string.
JsonOf(v) ==
    IF v = None THEN [t |-> "null", n |-> 0, s |-> ""]
    ELSE [t |-> "number", n |-> Val(v), s |-> ""]

JsonStr(v) == [t |-> "string", n |-> 0, s |-> v]

JsonNum(v) == [t |-> "number", n |-> v, s |-> ""]

\* json.dump(portfolio, file, indent=4) (line 38): a list of objects.
json_dump(portfolio) ==
    [ i \in 1..Len(portfolio) |->
        << << "Stock", JsonStr(portfolio[i].Stock) >>,
           << "Quantity", JsonNum(portfolio[i].Quantity) >>,
           << "Buy Price", JsonOf(portfolio[i].BuyPrice) >>,
           << "Buy Date", JsonStr(portfolio[i].BuyDate) >> >> ]

FromJson(j) ==
    CASE j.t = "null" -> None
      [] j.t = "number" -> Float(j.n)
      [] OTHER -> None

\* json.load(file) (line 32).
json_load(text) ==
    [ i \in 1..Len(text) |->
        Lot(text[i][1][2].s, text[i][2][2].n, FromJson(text[i][3][2]), text[i][4][2].s) ]

\* load_portfolio, had it never read the file.
load_portfolio_fresh == << >>

\* load_portfolio (lines 29-33) on a file that json.load accepts.
load_portfolio ==
    IF file.state = "json" THEN json_load(file.text) ELSE << >>

\* json.load raises on a file a failed dump left truncated.
LoadRaises == file.state = "truncated"

\* save_portfolio, had it written nothing.
save_portfolio_skip(portfolio, io) == file

\* save_portfolio (lines 36-38).  io = "ok": the file holds the dump;
\* "open_fails": open(...,'w') raised, the file is as before;
\* "dump_fails": open truncated the file and the write raised.
save_portfolio(portfolio, io) ==
    CASE io = "ok" -> [state |-> "json", text |-> json_dump(portfolio)]
      [] io = "open_fails" -> file
      [] OTHER -> [state |-> "truncated", text |-> << >>]

\* A store that never fails, and one that fails at most one save of a behaviour.
Reliable == {"ok"}

Faulty == IF save_faulted THEN {"ok"} ELSE {"ok", "open_fails", "dump_fails"}

Faults(io) == save_faulted \/ io # "ok"

\* -------------------------------------------------------------- aggregation
RECURSIVE SumQuantity(_, _)
SumQuantity(entries, i) ==
    IF i > Len(entries) THEN 0
    ELSE entries[i].Quantity + SumQuantity(entries, i + 1)

RECURSIVE SumInvested(_, _)
SumInvested(entries, i) ==
    IF i > Len(entries) THEN 0
    ELSE Val(entries[i].BuyPrice) * entries[i].Quantity + SumInvested(entries, i + 1)

\* [entry for entry in portfolio if entry['Stock'] == stock] (line 47).
RECURSIVE stock_entries(_, _)
stock_entries(portfolio, stock) ==
    IF portfolio = << >> THEN << >>
    ELSE IF Head(portfolio).Stock = stock
         THEN << Head(portfolio) >> \o stock_entries(Tail(portfolio), stock)
         ELSE stock_entries(Tail(portfolio), stock)

\* set(item['Stock'] for item in portfolio) (line 46).
StockSet(portfolio) == { portfolio[i].Stock : i \in 1..Len(portfolio) }

\* None * int raises TypeError (line 49).
TotalsRaise(portfolio) ==
    \E i \in 1..Len(portfolio) : portfolio[i].BuyPrice = None

\* f"Rs{x:.2f}" (lines 61-63) of an amount x in paise: sign, rupees, paise.
Fmt(x) ==
    LET a == IF x < 0 THEN 0 - x ELSE x
    IN  [neg |-> x < 0, whole |-> a \div 100, frac |-> a % 100]

\* The locals of one pass of the loop body (lines 47-56) for one stock.
StockLocals(portfolio, stock, data) ==
    LET entries == stock_entries(portfolio, stock)
        total_quantity == SumQuantity(entries, 1)
        total_invested_stock == SumInvested(entries, 1)
        latest_price == get_latest_price(data)
    IN  [total_quantity |-> total_quantity,
         total_invested_stock |-> total_invested_stock,
         total_current_value |->
             IF latest_price # None THEN total_quantity * Val(latest_price)
             ELSE total_invested_stock,
         profit_loss |->
             IF latest_price # None
             THEN total_quantity * Val(latest_price) - total_invested_stock
             ELSE 0]

\* The dict appended to stock_totals (lines 58-64).
Position(stock, locals) ==
    [Stock |-> stock,
     Quantity |-> locals.total_quantity,
     TotalInvested |-> Fmt(locals.total_invested_stock),
     CurrentValue |-> Fmt(locals.total_current_value),
     ProfitLoss |-> Fmt(locals.profit_loss)]

\* The orders in which a set may be iterated (line 46).
Orders(S) ==
    { o \in [1..Cardinality(S) -> S] : \A i, j \in 1..Cardinality(S) : o[i] = o[j] => i = j }

RECURSIVE SumLocals(_, _, _)
SumLocals(locals, f, i) ==
    IF i > Len(locals) THEN 0 ELSE locals[i][f] + SumLocals(locals, f, i + 1)

\* calculate_totals (lines 41-69).  order: the order in which the set of
\* stocks is iterated; oracle: the frame fetch_stock_data returns per stock.
calculate_totals(portfolio, order, oracle) ==
    IF TotalsRaise(portfolio)
    THEN [raised |-> TRUE, stock_totals |-> << >>, total_invested |-> 0,
          total_profit_loss |-> 0]
    ELSE LET locals ==
                 [ i \in 1..Len(order) |->
                     StockLocals(portfolio, order[i], oracle[order[i]]) ]
         IN  [raised |-> FALSE,
              stock_totals |-> [ i \in 1..Len(order) |-> Position(order[i], locals[i]) ],
              total_invested |-> SumLocals(locals, "total_invested_stock", 1),
              total_profit_loss |-> SumLocals(locals, "profit_loss", 1)]

\* --------------------------------------------------------------- the script
NoOut ==
    [session |-> "", op |-> "none", status |-> "none", stock |-> "", quantity |-> 0,
     data |-> << >>, date |-> "", profit_loss |-> 0]

Init ==
    /\ session_state = [s \in Sessions |-> [has |-> FALSE, portfolio |-> << >>]]
    /\ file = [state |-> "absent", text |-> << >>]
    /\ out = NoOut
    /\ save_faulted = FALSE

\* Lines 76-77: the portfolio this run works on.
Started(s) ==
    IF session_state[s].has THEN session_state[s].portfolio ELSE load_portfolio

\* The run gets past line 77.
Loads(s) == session_state[s].has \/ ~LoadRaises

\* The run gets past the display at lines 80-86 (and the one at 123-128).
Displays(portfolio) == ~(Len(portfolio) > 0 /\ TotalsRaise(portfolio))

Put(s, portfolio) ==
    [session_state EXCEPT ![s] = [has |-> TRUE, portfolio |-> portfolio]]

\* What a run leaves to see: the session, the button and the widget values it
\* ran with, the frame its price fetch returned, and the message it ended
\* with ("success", an st.error text, or the exception that ended the run).
Result(s, op, status, stock, quantity, data, date, profit_loss) ==
    [session |-> s, op |-> op, status |-> status, stock |-> stock, quantity |-> quantity,
     data |-> data, date |-> date, profit_loss |-> profit_loss]

\* A run in which no button is reported as clicked, or which raises before it
\* reaches one: line 77 (json.load) or line 82 (calculate_totals).
View(s) ==
    /\ IF ~Loads(s)
       THEN /\ out' = Result(s, "none", "JSONDecodeError", "", 0, << >>, "", 0)
            /\ UNCHANGED session_state
       ELSE /\ session_state' = Put(s, Started(s))
            /\ out' = Result(s, "none",
                             IF Displays(Started(s)) THEN "shown" ELSE "TypeError",
                             "", 0, << >>, "", 0)
    /\ UNCHANGED << file, save_faulted >>

\* The append, had the buy been merged into the stock's first lot.
append_merge(portfolio, entry) ==
    IF \E i \in 1..Len(portfolio) : portfolio[i].Stock = entry.Stock
    THEN LET k == CHOOSE i \in 1..Len(portfolio) :
                      /\ portfolio[i].Stock = entry.Stock
                      /\ \A j \in 1..(i - 1) : portfolio[j].Stock # entry.Stock
         IN  [portfolio EXCEPT ![k].Quantity = @ + entry.Quantity]
    ELSE Append(portfolio, entry)

\* list.append (line 112).
append(portfolio, entry) == Append(portfolio, entry)

\* The guards, had line 91 not tested the symbol.
Charted_unguarded(stock_symbol, stock_data) == stock_data # << >>

\* Lines 91 and 95: the Buy and Sell sections exist only below a symbol that
\* is not empty and whose six-month history is not empty.
Charted(stock_symbol, stock_data) == stock_symbol # "" /\ stock_data # << >>

\* Some six-month history charts the symbol typed as text.
Chartable(text) == { d \in Frames : Charted(upper(text), d) } # {}

\* A run with the Buy button clicked (lines 89-119).
Buy(s, ios) ==
    \E text \in TextInputs, data \in Frames, quantity_to_buy \in Quantities,
       date \in { strftime(now) : now \in Nows }, io \in ios :
        LET stock_symbol == upper(text)
            latest_price == get_latest_price(data)
            portfolio == append(Started(s),
                                Lot(stock_symbol, quantity_to_buy, latest_price, date))
        IN  /\ Loads(s)
            /\ Displays(Started(s))
            /\ Chartable(text)
            /\ Len(Started(s)) < MaxLots
            /\ session_state' = Put(s, portfolio)
            /\ file' = save_portfolio(portfolio, io)
            /\ save_faulted' = Faults(io)
            /\ out' = Result(s, "buy",
                             IF io # "ok" THEN "OSError"
                             ELSE IF latest_price = None THEN "TypeError"
                             ELSE "success",
                             stock_symbol, quantity_to_buy, data, date, 0)

\* The loop, had it sold whenever the lots of the stock together cover the sale.
RECURSIVE SellScanSum(_, _, _, _)
SellScanSum(portfolio, stock_to_sell, quantity_to_sell, i) ==
    IF i > Len(portfolio) THEN [hit |-> 0, error |-> FALSE]
    ELSE IF portfolio[i].Stock = stock_to_sell
         THEN IF SumQuantity(stock_entries(portfolio, stock_to_sell), 1) >= quantity_to_sell
              THEN [hit |-> i, error |-> FALSE]
              ELSE [hit |-> 0, error |-> TRUE]
         ELSE SellScanSum(portfolio, stock_to_sell, quantity_to_sell, i + 1)

\* The loop, had it sold from any lot that still holds shares.
RECURSIVE SellScanPositive(_, _, _, _)
SellScanPositive(portfolio, stock_to_sell, quantity_to_sell, i) ==
    IF i > Len(portfolio) THEN [hit |-> 0, error |-> FALSE]
    ELSE IF portfolio[i].Stock = stock_to_sell
         THEN IF portfolio[i].Quantity > 0
              THEN [hit |-> i, error |-> FALSE]
              ELSE [hit |-> 0, error |-> TRUE]
         ELSE SellScanPositive(portfolio, stock_to_sell, quantity_to_sell, i + 1)

\* The loop, had it gone on past an entry of the stock that holds too little.
RECURSIVE SellScanSkip(_, _, _, _)
SellScanSkip(portfolio, stock_to_sell, quantity_to_sell, i) ==
    IF i > Len(portfolio) THEN [hit |-> 0, error |-> TRUE]
    ELSE IF portfolio[i].Stock = stock_to_sell /\ portfolio[i].Quantity >= quantity_to_sell
         THEN [hit |-> i, error |-> FALSE]
         ELSE SellScanSkip(portfolio, stock_to_sell, quantity_to_sell, i + 1)

\* The loop of lines 142-158 from entry i on: the index of the entry the sale
\* is applied to, or 0 when the loop ends without a sale.
RECURSIVE SellScan(_, _, _, _)
SellScan(portfolio, stock_to_sell, quantity_to_sell, i) ==
    IF i > Len(portfolio) THEN [hit |-> 0, error |-> FALSE]
    ELSE IF portfolio[i].Stock = stock_to_sell
         THEN IF portfolio[i].Quantity >= quantity_to_sell
              THEN [hit |-> i, error |-> FALSE]
              ELSE [hit |-> 0, error |-> TRUE]
         ELSE SellScan(portfolio, stock_to_sell, quantity_to_sell, i + 1)

\* The decrement, had a failed save taken it back.
Decrement_rolled_back(portfolio, i, quantity_to_sell) == portfolio

\* The decrement, had lines 149-152 (commented out) removed a sold-out entry.
Decrement_remove(portfolio, i, quantity_to_sell) ==
    IF portfolio[i].Quantity = quantity_to_sell
    THEN SubSeq(portfolio, 1, i - 1) \o SubSeq(portfolio, i + 1, Len(portfolio))
    ELSE [portfolio EXCEPT ![i].Quantity = @ - quantity_to_sell]

\* The decrement, had it added the shares.
Decrement_add(portfolio, i, quantity_to_sell) ==
    [portfolio EXCEPT ![i].Quantity = @ + quantity_to_sell]

\* entry['Quantity'] -= quantity_to_sell (line 148).
Decrement(portfolio, i, quantity_to_sell) ==
    [portfolio EXCEPT ![i].Quantity = @ - quantity_to_sell]

\* profit_loss, had the parentheses of line 147 been left out.
ProfitLoss_unparenthesised(sell_price, buy_price, quantity_to_sell) ==
    Val(sell_price) - Val(buy_price) * quantity_to_sell

\* profit_loss of line 147.
ProfitLoss(sell_price, buy_price, quantity_to_sell) ==
    (Val(sell_price) - Val(buy_price)) * quantity_to_sell

\* The Sell branch once a price is there (lines 141-158): the loop, the
\* decrement, the save and the message.
SellAt(s, ios, stock_to_sell, quantity_to_sell, data) ==
    LET scan == SellScan(Started(s), stock_to_sell, quantity_to_sell, 1)
        sell_price == get_latest_price(data)
    IN  IF scan.hit = 0
        THEN /\ session_state' = Put(s, Started(s))
             /\ out' = Result(s, "sell",
                              IF scan.error THEN "not_enough_quantity" ELSE "no_entry",
                              stock_to_sell, quantity_to_sell, data, "", 0)
             /\ UNCHANGED << file, save_faulted >>
        ELSE \E io \in ios :
                LET portfolio == Decrement(Started(s), scan.hit, quantity_to_sell)
                IN  /\ session_state' = Put(s, portfolio)
                    /\ file' = save_portfolio(portfolio, io)
                    /\ save_faulted' = Faults(io)
                    /\ out' = Result(s, "sell",
                                     IF io = "ok" THEN "success" ELSE "OSError",
                                     stock_to_sell, quantity_to_sell, data, "",
                                     ProfitLoss(sell_price, Started(s)[scan.hit].BuyPrice,
                                                quantity_to_sell))

\* A run with the Sell button clicked (lines 130-167).  The button exists only
\* in a charted run with a non-empty portfolio that line 124 could total; the
\* stock is one of the displayed table's stocks (line 132).
Sell(s, ios) ==
    \E stock_to_sell \in StockSet(Started(s)), data \in Frames,
       quantity_to_sell \in Quantities :
        LET sell_price == get_latest_price(data)
        IN  /\ Loads(s)
            /\ Displays(Started(s))
            /\ { text \in TextInputs : Chartable(text) } # {}
            /\ Len(Started(s)) > 0
            /\ IF sell_price = None
               THEN /\ session_state' = Put(s, Started(s))
                    /\ out' = Result(s, "sell", "price_unavailable", stock_to_sell,
                                     quantity_to_sell, data, "", 0)
                    /\ UNCHANGED << file, save_faulted >>
               ELSE SellAt(s, ios, stock_to_sell, quantity_to_sell, data)

\* The clear, had it assigned the empty list to a local name only.
cleared_local(portfolio) == portfolio

\* st.session_state.portfolio = [] (line 171).
cleared(portfolio) == << >>

\* A run with the Clear Portfolio button clicked (lines 170-173).
Clear(s, ios) ==
    \E io \in ios :
        /\ Loads(s)
        /\ Displays(Started(s))
        /\ session_state' = Put(s, cleared(Started(s)))
        /\ file' = save_portfolio(cleared(Started(s)), io)
        /\ save_faulted' = Faults(io)
        /\ out' = Result(s, "clear", IF io = "ok" THEN "success" ELSE "OSError",
                         "", 0, << >>, "", 0)

\* The browser session ends; the next run of s starts without session state.
NewSession(s) ==
    /\ session_state[s].has
    /\ session_state' = [session_state EXCEPT ![s] = [has |-> FALSE, portfolio |-> << >>]]
    /\ out' = NoOut
    /\ UNCHANGED << file, save_faulted >>

\* One user, one session at a time.
Next ==
    \/ View("s1")
    \/ Buy("s1", Reliable)
    \/ Sell("s1", Reliable)
    \/ Clear("s1", Reliable)
    \/ NewSession("s1")

Spec == Init /\ [][Next]_vars

\* The same user with a store whose save may fail once.
NextFaulty ==
    \/ View("s1")
    \/ Buy("s1", Faulty)
    \/ Sell("s1", Faulty)
    \/ Clear("s1", Faulty)
    \/ NewSession("s1")

SpecFaulty == Init /\ [][NextFaulty]_vars

\* The lots the sessions hold between them after the step stay within the bound.
WithinLots ==
    Len(session_state'["s1"].portfolio) + Len(session_state'["s2"].portfolio) <= MaxLots

\* Two browser sessions of the same server: each has its own session_state,
\* both read and write PORTFOLIO_FILE (line 9); their runs interleave.
NextTwo ==
    \E s \in Sessions :
        \/ View(s)
        \/ Buy(s, Reliable) /\ WithinLots
        \/ Sell(s, Reliable)
        \/ Clear(s, Reliable)
        \/ NewSession(s)

SpecTwo == Init /\ [][NextTwo]_vars

\* ------------------------------------------------------------------ claims
\* The entries of stock s in portfolio pf, by position.
LotsOf(pf, s) == { i \in 1..Len(pf) : pf[i].Stock = s }

\* Some single lot of s holds at least q shares.
CanCover(pf, s, q) == \E i \in LotsOf(pf, s) : pf[i].Quantity >= q

\* The oldest lot of s that holds at least q shares.
OldestCovering(pf, s, q) ==
    CHOOSE i \in LotsOf(pf, s) :
        /\ pf[i].Quantity >= q
        /\ \A j \in LotsOf(pf, s) : j < i => pf[j].Quantity < q

RECURSIVE QuantityOver(_, _)
QuantityOver(pf, I) ==
    IF I = {} THEN 0
    ELSE LET i == CHOOSE x \in I : TRUE
         IN  pf[i].Quantity + QuantityOver(pf, I \ {i})

\* The shares of s that the lots of pf hold together.
Held(pf, s) == QuantityOver(pf, LotsOf(pf, s))

\* The ledger of the session that ran last.
Ledger == session_state[out.session].portfolio

\* C1: a sell of q shares of s with a price available, when some lot of s
\* holds at least q, succeeds and is applied to the oldest lot of s that holds
\* at least q, older lots of s that hold less being skipped.
C1_SellOldestCoveringLot ==
    [][ LET s == out'.session
            pf == Started(s)
        IN  (/\ out'.op = "sell"
             /\ out'.data # << >>
             /\ CanCover(pf, out'.stock, out'.quantity))
            => /\ out'.status = "success"
               /\ session_state'[s].portfolio =
                      [pf EXCEPT ![OldestCovering(pf, out'.stock, out'.quantity)].Quantity =
                                     @ - out'.quantity] ]_vars

\* C2: a sell of q shares of s when no single lot of s holds at least q
\* fails, with the not-enough-quantity error when a price was available, and
\* changes neither the ledger in memory nor the saved ledger, even when the
\* lots of s together hold at least q.
C2_SingleLotCoverage ==
    [][ LET s == out'.session
            pf == Started(s)
        IN  (/\ out'.op = "sell"
             /\ ~CanCover(pf, out'.stock, out'.quantity))
            => /\ out'.status \in {"not_enough_quantity", "price_unavailable"}
               /\ out'.data # << >> => out'.status = "not_enough_quantity"
               /\ session_state'[s].portfolio = pf
               /\ file' = file ]_vars

\* A sell refused for quantity although the lots of the stock together cover it.
C2_Witness ==
    /\ out.op = "sell"
    /\ out.status = "not_enough_quantity"
    /\ ~CanCover(Ledger, out.stock, out.quantity)
    /\ Held(Ledger, out.stock) >= out.quantity

\* C3: a buy made while the latest price of the symbol is unavailable does
\* not succeed and changes neither the ledger in memory nor the saved ledger,
\* so no lot with an unknown buy price is ever in the ledger or in the file.
C3_BuyNeedsPrice ==
    [][ LET s == out'.session
        IN  (out'.op = "buy" /\ out'.data = << >>)
            => /\ out'.status # "success"
               /\ session_state'[s].portfolio = Started(s)
               /\ file' = file
               /\ \A i \in 1..Len(session_state'[s].portfolio) :
                      session_state'[s].portfolio[i].BuyPrice # None ]_vars

\* C4: a sell whose price fetch, made at sell time, returns nothing fails
\* with the price error and leaves every lot, the lot order and the saved
\* ledger as they were.
C4_SellNeedsPrice ==
    [][ LET s == out'.session
        IN  (out'.op = "sell" /\ out'.data = << >>)
            => /\ out'.status = "price_unavailable"
               /\ session_state'[s].portfolio = Started(s)
               /\ file' = file ]_vars

\* A sell refused for want of a price that a lot could have covered.
C4_Witness ==
    /\ out.op = "sell"
    /\ out.status = "price_unavailable"
    /\ out.data = << >>
    /\ CanCover(Ledger, out.stock, out.quantity)
    /\ file.state = "json"

\* Every lot in memory and in the file holds a quantity >= 0.
QuantitiesNonNegative ==
    /\ \A s \in Sessions : \A i \in 1..Len(session_state[s].portfolio) :
           session_state[s].portfolio[i].Quantity >= 0
    /\ \A i \in 1..Len(load_portfolio) : load_portfolio[i].Quantity >= 0

\* C5: in every reachable state every lot's quantity is >= 0, and a sell of
\* more shares than a lot holds leaves that lot as it was.
C5_QuantityNeverNegative ==
    /\ []QuantitiesNonNegative
    /\ [][ LET s == out'.session
               pf == Started(s)
           IN  out'.op = "sell"
               => \A i \in 1..Len(pf) :
                      pf[i].Quantity < out'.quantity
                      => session_state'[s].portfolio[i] = pf[i] ]_vars

\* A sell of more than the oldest lot of the stock holds, refused, and a lot
\* sold down to zero.
C5_Witness ==
    /\ out.op = "sell"
    /\ out.status = "not_enough_quantity"
    /\ \E i \in LotsOf(Ledger, out.stock) : Ledger[i].Quantity < out.quantity
    /\ \E i \in 1..Len(Ledger) : Ledger[i].Quantity = 0

\* C6: whenever a buy, sell or clear has reported success, the file holds the
\* full ledger as it is in memory after the operation.
C6_SaveBeforeSuccess ==
    out.status = "success"
    => /\ out.op \in {"buy", "sell", "clear"}
       /\ file.state = "json"
       /\ Len(file.text) = Len(Ledger)
       /\ load_portfolio = Ledger

\* A sell has reported success and the file holds the decremented lot.
C6_Witness ==
    /\ out.op = "sell"
    /\ out.status = "success"
    /\ \E i \in 1..Len(Ledger) :
           /\ Ledger[i].Quantity < MaxQty
           /\ file.text[i][2][2].n = Ledger[i].Quantity

\* C7: a successful buy of q shares of s at price p appends exactly one lot
\* (s, q, p, today) at the end of the ledger; the lots of s become one more,
\* the shares of s q more, and every lot that was there is unchanged.
C7_BuyAppendsOneLot ==
    [][ LET s == out'.session
            pf == Started(s)
            after == session_state'[s].portfolio
        IN  (out'.op = "buy" /\ out'.status = "success")
            => /\ Len(after) = Len(pf) + 1
               /\ \A i \in 1..Len(pf) : after[i] = pf[i]
               /\ after[Len(after)].Stock = out'.stock
               /\ after[Len(after)].Quantity = out'.quantity
               /\ after[Len(after)].BuyPrice = << out'.data[Len(out'.data)] >>
               /\ after[Len(after)].BuyDate = out'.date
               /\ \E now \in Nows : out'.date = strftime(now)
               /\ Cardinality(LotsOf(after, out'.stock)) =
                      Cardinality(LotsOf(pf, out'.stock)) + 1
               /\ Held(after, out'.stock) = Held(pf, out'.stock) + out'.quantity ]_vars

\* A successful buy of a stock the ledger already held a lot of.
C7_Witness ==
    /\ out.op = "buy"
    /\ out.status = "success"
    /\ Cardinality(LotsOf(Ledger, out.stock)) >= 2
    /\ Ledger[Len(Ledger)].Quantity = out.quantity

\* C8: a successful sell of q shares of s at sell price p changes exactly one
\* lot, a lot of s, lowering its quantity by exactly q; the profit_loss
\* reported is (p - that lot's buy price) * q; all other lots, the order of
\* the lots and their number are unchanged.
C8_SellProfitMath ==
    [][ LET s == out'.session
            pf == Started(s)
            after == session_state'[s].portfolio
            p == out'.data[Len(out'.data)]
        IN  (out'.op = "sell" /\ out'.status = "success")
            => /\ Len(after) = Len(pf)
               /\ \E k \in LotsOf(pf, out'.stock) :
                      /\ after[k].Quantity = pf[k].Quantity - out'.quantity
                      /\ after[k].Stock = pf[k].Stock
                      /\ after[k].BuyPrice = pf[k].BuyPrice
                      /\ after[k].BuyDate = pf[k].BuyDate
                      /\ \A j \in 1..Len(pf) : j # k => after[j] = pf[j]
                      /\ out'.profit_loss = (p - pf[k].BuyPrice[1]) * out'.quantity ]_vars

\* A sell at a profit from the older of two lots that could each cover it.
C8_Witness ==
    /\ out.op = "sell"
    /\ out.status = "success"
    /\ out.profit_loss = 20 * out.quantity
    /\ \E i, j \in LotsOf(Ledger, out.stock) :
           /\ i < j
           /\ Ledger[i].Quantity < MaxQty
           /\ Ledger[j].Quantity >= out.quantity

\* The amount a formatted string stands for, in paise.
Amount(f) == (IF f.neg THEN 0 - 1 ELSE 1) * (f.whole * 100 + f.frac)

RECURSIVE InvestedOver(_, _)
InvestedOver(pf, I) ==
    IF I = {} THEN 0
    ELSE LET i == CHOOSE x \in I : TRUE
         IN  pf[i].Quantity * pf[i].BuyPrice[1] + InvestedOver(pf, I \ {i})

RECURSIVE Total(_, _, _)
Total(totals, F(_), i) ==
    IF i > Len(totals) THEN 0 ELSE F(totals[i]) + Total(totals, F, i + 1)

PositionQuantity(p) == p.Quantity

PositionInvested(p) == Amount(p.TotalInvested)

PositionProfit(p) == Amount(p.ProfitLoss)

\* C9: for the ledger of any reachable state, whatever the iteration order
\* and the prices, calculate_totals returns one position per distinct stock,
\* each lot counted in exactly one of them, and the positions' invested
\* amounts and the returned total_invested both sum to the lots'
\* quantity * buy price.
C9_AggregationPartition ==
    \A s \in Sessions :
        LET pf == session_state[s].portfolio
        IN  \A order \in Orders(StockSet(pf)), oracle \in [StockSet(pf) -> Frames] :
                LET r == calculate_totals(pf, order, oracle)
                IN  /\ ~r.raised
                    /\ Len(r.stock_totals) = Cardinality(StockSet(pf))
                    /\ \A st \in StockSet(pf) :
                           Cardinality({ i \in 1..Len(r.stock_totals) :
                                           r.stock_totals[i].Stock = st }) = 1
                    /\ \A i \in 1..Len(r.stock_totals) :
                           r.stock_totals[i].Quantity = Held(pf, r.stock_totals[i].Stock)
                    /\ Total(r.stock_totals, PositionQuantity, 1) =
                           QuantityOver(pf, 1..Len(pf))
                    /\ Total(r.stock_totals, PositionInvested, 1) =
                           InvestedOver(pf, 1..Len(pf))
                    /\ r.total_invested = InvestedOver(pf, 1..Len(pf))

\* C10: for the ledger of any reachable state, calculate_totals never raises;
\* a stock whose price is unavailable gets a current value equal to its
\* invested amount and a profit_loss of 0, a stock with a price p gets current
\* value total quantity * p and profit_loss current value - invested, and
\* total_profit_loss is the sum of the positions' profit_loss.
C10_UnavailablePriceValuation ==
    \A s \in Sessions :
        LET pf == session_state[s].portfolio
        IN  \A order \in Orders(StockSet(pf)), oracle \in [StockSet(pf) -> Frames] :
                LET r == calculate_totals(pf, order, oracle)
                IN  /\ ~r.raised
                    /\ \A i \in 1..Len(r.stock_totals) :
                           LET p == r.stock_totals[i]
                               data == oracle[p.Stock]
                           IN  IF data = << >>
                               THEN /\ p.CurrentValue = p.TotalInvested
                                    /\ Amount(p.ProfitLoss) = 0
                               ELSE /\ Amount(p.CurrentValue) =
                                           p.Quantity * data[Len(data)]
                                    /\ Amount(p.ProfitLoss) =
                                           Amount(p.CurrentValue) - Amount(p.TotalInvested)
                    /\ r.total_profit_loss = Total(r.stock_totals, PositionProfit, 1)

\* C11: a clear, whatever the ledger it starts from, leaves the empty ledger
\* in memory and the empty list in the file and reports success; the state
\* after a clear is one and the same state, so a second clear changes nothing.
C11_ClearYieldsEmpty ==
    /\ [][ LET s == out'.session
           IN  out'.op = "clear"
               => /\ session_state'[s] = [has |-> TRUE, portfolio |-> << >>]
                  /\ file' = [state |-> "json", text |-> << >>]
                  /\ out'.status = "success" ]_vars
    /\ [][ (out.op = "clear" /\ out'.op = "clear") => UNCHANGED vars ]_vars

\* A clear has run on a store that held lots before (the file was written).
C11_Witness ==
    /\ out.op = "clear"
    /\ out.status = "success"
    /\ Ledger = << >>
    /\ file = [state |-> "json", text |-> << >>]

\* C12: every ledger reached is returned lot for lot, field for field and in
\* order by json.load of its json.dump, the empty one as an empty list; the
\* file holds the ledger of the running session, so a session that ends
\* leaves to the next one exactly its final ledger.
C12_RoundTrip ==
    /\ [](\A s \in Sessions :
              LET pf == session_state[s].portfolio
              IN  /\ json_load(json_dump(pf)) = pf
                  /\ Len(json_dump(pf)) = Len(pf)
                  /\ session_state[s].has => load_portfolio = pf)
    /\ [][ \A s \in Sessions :
               (session_state[s].has /\ ~session_state'[s].has)
               => /\ load_portfolio' = session_state[s].portfolio
                  /\ Started(s)' = session_state[s].portfolio ]_vars

\* A session has ended and left a full ledger, one lot sold out, to the next.
C12_Witness ==
    /\ ~session_state["s1"].has
    /\ file.state = "json"
    /\ Len(load_portfolio) = MaxLots
    /\ \E i \in 1..Len(load_portfolio) : load_portfolio[i].Quantity = 0
    /\ Started("s1") = load_portfolio

\* The ledger pf with q shares taken from one lot of stock s that held them.
SoldFrom(pf, s, q) ==
    { [pf EXCEPT ![i].Quantity = @ - q] :
        i \in { j \in LotsOf(pf, s) : pf[j].Quantity >= q } }

\* The ledger pf with one lot of q shares of stock s at its end.
BoughtOnto(pf, s, q) ==
    { Append(pf, Lot(s, q, p, d)) :
        p \in {None} \cup { Float(x) : x \in Prices },
        d \in { strftime(now) : now \in Nows } }

\* C13: when the save of a buy, a sell or a clear fails, the session keeps
\* the mutated ledger (the lot appended, the lot decremented, the list
\* emptied), no success is reported, the file is not the dump of the new
\* ledger's run, and the next operation works on the mutated ledger; the
\* next save that succeeds brings the file level with the session.
C13_SaveFailureKeepsMutation ==
    /\ [][ \A s \in Sessions :
             LET pf == Started(s)
                 after == session_state'[s].portfolio
             IN  (out'.session = s /\ out'.status = "OSError")
               => /\ session_state'[s].has
                  /\ Started(s)' = after
                  /\ out'.op \in {"buy", "sell", "clear"}
                  /\ out'.op = "buy" => after \in BoughtOnto(pf, out'.stock, out'.quantity)
                  /\ out'.op = "sell" => after \in SoldFrom(pf, out'.stock, out'.quantity)
                  /\ out'.op = "clear" => after = << >>
                  /\ file' = file \/ file'.state = "truncated" ]_vars
    /\ [][ LET s == out'.session
           IN  (out.status = "OSError" /\ out'.op \in {"buy", "sell", "clear"})
               => /\ Started(s) = session_state[s].portfolio
                  /\ out'.op = "buy"
                     => SubSeq(session_state'[s].portfolio, 1, Len(Started(s))) = Started(s)
                  /\ out'.status = "success"
                     => /\ file'.state = "json"
                        /\ json_load(file'.text) = session_state'[s].portfolio ]_vars

\* A sell whose save failed: the session holds the decremented lot, the file
\* still holds the lot as it was.
C13_Witness ==
    /\ out.op = "sell"
    /\ out.status = "OSError"
    /\ file.state = "json"
    /\ Len(load_portfolio) = Len(Ledger)
    /\ \E i \in 1..Len(Ledger) :
           Ledger[i].Quantity + out.quantity = load_portfolio[i].Quantity

\* C14: no run but a clear shortens the ledger or moves a lot: the lots of
\* before are the first lots of after, each at its position, and a lot with
\* quantity 0 stays as it is, in the session and in the file.
C14_LotsNeverRemoved ==
    [][ \A s \in Sessions :
            LET pf == Started(s)
                after == Started(s)'
            IN  (out'.session = s /\ out'.op # "clear")
                => /\ Len(after) >= Len(pf)
                   /\ \A i \in 1..Len(pf) :
                          /\ Lot(after[i].Stock, 0, after[i].BuyPrice, after[i].BuyDate)
                               = Lot(pf[i].Stock, 0, pf[i].BuyPrice, pf[i].BuyDate)
                          /\ pf[i].Quantity = 0
                             => /\ after[i] = pf[i]
                                /\ load_portfolio'[i] = pf[i] ]_vars

\* A lot sold out stays first in the session and in the file while a later
\* lot is bought behind it.
C14_Witness ==
    /\ out.op = "buy"
    /\ out.status = "success"
    /\ Len(Ledger) = MaxLots
    /\ Ledger[1].Quantity = 0
    /\ load_portfolio[1] = Ledger[1]

\* C15: in every step but a clear each lot of before keeps its Stock, Buy
\* Price and Buy Date, and its Quantity stays or, in a sell that succeeds,
\* goes down by the quantity sold; it never goes up.
C15_LotImmutability ==
    [][ \A s \in Sessions :
            LET pf == Started(s)
                after == Started(s)'
            IN  (out'.session = s /\ out'.op # "clear")
                => \A i \in 1..Len(pf) :
                       /\ i <= Len(after)
                       /\ after[i].Stock = pf[i].Stock
                       /\ after[i].BuyPrice = pf[i].BuyPrice
                       /\ after[i].BuyDate = pf[i].BuyDate
                       /\ after[i].Quantity <= pf[i].Quantity
                       /\ after[i].Quantity < pf[i].Quantity
                          => /\ out'.op = "sell"
                             /\ out'.status = "success"
                             /\ after[i].Quantity = pf[i].Quantity - out'.quantity ]_vars

\* A sell has taken part of a lot and left the lot behind it untouched.
C15_Witness ==
    /\ out.op = "sell"
    /\ out.status = "success"
    /\ Len(Ledger) = MaxLots
    /\ Ledger[1].Quantity = MaxQty - out.quantity
    /\ Ledger[1].Quantity > 0
    /\ Ledger[MaxLots].Quantity = MaxQty

\* C16: in every ledger reached, a stock whose lots all hold quantity 0 has
\* one position in the result of calculate_totals, with Quantity 0, Total
\* Invested 0 and Profit/Loss 0 whatever the price fetch returns, and is one
\* of the stocks the sell selector offers.
C16_ZeroQuantityPosition ==
    \A s \in Sessions :
        LET pf == session_state[s].portfolio
        IN  \A st \in StockSet(pf) :
                (\A i \in LotsOf(pf, st) : pf[i].Quantity = 0)
                => \A order \in Orders(StockSet(pf)), oracle \in [StockSet(pf) -> Frames] :
                       LET r == calculate_totals(pf, order, oracle)
                           at == { i \in 1..Len(r.stock_totals) : r.stock_totals[i].Stock = st }
                       IN  /\ ~r.raised
                           /\ Cardinality(at) = 1
                           /\ \A i \in at :
                                  /\ r.stock_totals[i].Quantity = 0
                                  /\ Amount(r.stock_totals[i].TotalInvested) = 0
                                  /\ Amount(r.stock_totals[i].ProfitLoss) = 0
                           /\ Displays(pf)

\* C17: every lot, in a session or in the file, has a symbol that is not
\* empty and is upper case, and every buy run is for such a symbol and for a
\* quantity of at least 1, which is the quantity of the lot it appends.
C17_InputValidity ==
    /\ [](/\ \A s \in Sessions : \A i \in 1..Len(session_state[s].portfolio) :
                 /\ session_state[s].portfolio[i].Stock # ""
                 /\ session_state[s].portfolio[i].Stock \in Symbols
          /\ \A i \in 1..Len(load_portfolio) :
                 /\ load_portfolio[i].Stock # ""
                 /\ load_portfolio[i].Stock \in Symbols)
    /\ [][ \A s \in Sessions :
               (out'.session = s /\ out'.op = "buy")
               => LET after == session_state'[s].portfolio
                  IN  /\ out'.stock \in Symbols
                      /\ out'.quantity >= 1
                      /\ Len(after) = Len(Started(s)) + 1
                      /\ after[Len(after)].Stock = out'.stock
                      /\ after[Len(after)].Quantity = out'.quantity ]_vars

\* Two buys are in the ledger, one of each symbol, the last of one share.
C17_Witness ==
    /\ out.op = "buy"
    /\ Len(Ledger) = MaxLots
    /\ StockSet(Ledger) = Symbols
    /\ Ledger[Len(Ledger)].Quantity = 1
    /\ Ledger[Len(Ledger)].Stock = out.stock

\* The first lot of stock s in ledger pf.
FirstLot(pf, s) == CHOOSE i \in LotsOf(pf, s) : \A j \in LotsOf(pf, s) : i <= j

\* C18: a buy, sell or clear run of one session leaves the other session's
\* session state as it was, and every lot of the other session that the file
\* held before the run is still held by the file after it.
C18_SessionIsolation ==
    [][ \A s, t \in Sessions :
            (s # t /\ out'.session = s /\ out'.op \in {"buy", "sell", "clear"})
            => /\ session_state'[t] = session_state[t]
               /\ \A i \in 1..Len(session_state[t].portfolio) :
                      LET lot == session_state[t].portfolio[i]
                          Same(e) == /\ e.Stock = lot.Stock
                                     /\ e.BuyPrice = lot.BuyPrice
                                     /\ e.BuyDate = lot.BuyDate
                      IN  (session_state[t].has
                           /\ \E j \in 1..Len(load_portfolio) : Same(load_portfolio[j]))
                          => \E j \in 1..Len(load_portfolio') : Same(load_portfolio'[j]) ]_vars

\* C19: a sell with a price succeeds exactly when the first lot of the stock
\* holds the quantity asked; no sell changes a lot other than that first lot,
\* so while the first lot holds 0 no sell of the stock succeeds.
C19_FirstLotOnly ==
    [][ \A s \in Sessions :
            (out'.session = s /\ out'.op = "sell")
            => LET pf == Started(s)
                   after == session_state'[s].portfolio
                   first == FirstLot(pf, out'.stock)
               IN  /\ LotsOf(pf, out'.stock) # {}
                   /\ out'.data # << >>
                      => (out'.status = "success" <=> pf[first].Quantity >= out'.quantity)
                   /\ pf[first].Quantity = 0 => out'.status # "success"
                   /\ Len(after) = Len(pf)
                   /\ \A i \in 1..Len(pf) : i # first => after[i] = pf[i] ]_vars

\* A sell is refused though a later lot of the stock holds the quantity
\* asked: the first lot of the stock is sold out.
C19_Witness ==
    /\ out.op = "sell"
    /\ out.status = "not_enough_quantity"
    /\ Ledger[FirstLot(Ledger, out.stock)].Quantity = 0
    /\ \E i \in LotsOf(Ledger, out.stock) : Ledger[i].Quantity >= out.quantity

\* C20: run by run, the shares held of each symbol grow by the quantity of a
\* buy of that symbol that succeeds, shrink by the quantity of a sell of that
\* symbol that succeeds, are 0 after a clear and are the same after any other
\* run, a buy or sell that fails included; from the empty ledger this is the
\* sum of the successful buys less the successful sells since the last clear.
C20_QuantityConservation ==
    [][ \A s \in Sessions :
            out'.session = s
            => \A st \in Symbols :
                   LET before == Held(Started(s), st)
                       after == Held(session_state'[s].portfolio, st)
                       done == out'.status = "success" /\ out'.stock = st
                   IN  after = CASE out'.op = "clear" -> 0
                                 [] out'.op = "buy" /\ done -> before + out'.quantity
                                 [] out'.op = "sell" /\ done -> before - out'.quantity
                                 [] OTHER -> before ]_vars

====
